---------------------------- MODULE Spec2Model ----------------------------
(***************************************************************************)
(* Clustered light culling: BaseRenderer.updateClusters                    *)
(* (src/src/renderers/base.js) and the cluster lookup of the deferred      *)
(* fragment shader (src/src/shaders/deferred.frag.glsl.js).                *)
(*                                                                         *)
(* Numbers.  Light positions, radii and view translations are kept in      *)
(* HALF UNITS (the integer 3 stands for 1.5), so every coordinate the      *)
(* model draws is a small dyadic rational, exactly representable in the    *)
(* Float32Array vectors of gl-matrix and in JS doubles.  The cameras and   *)
(* grids drawn keep zStep = (far - near) / zSlices dyadic as well, so the  *)
(* floating-point quotients the code floors and ceils are the exact        *)
(* rational quotients computed here.  A JS number that reaches Math.floor, *)
(* Math.ceil, Math.min or Math.max is a record [k, v]: k = "num" with the  *)
(* integer v, or "nan", "pinf", "ninf".                                    *)
(***************************************************************************)
EXTENDS Integers, Sequences, FiniteSets

VARIABLES
  xSlices, ySlices, zSlices,  \* this._xSlices, this._ySlices, this._zSlices
  buffer,                     \* this._clusterTexture.buffer (flat scalars)
  camera, viewMatrix, lights, \* the arguments of the running/last call
  pc,                         \* position inside updateClusters
  i,                          \* index of the light being processed (0-based)
  range,                      \* clamped and swapped range of light i
  cur,                        \* position in the population loop nest (1-based)
  budget,                     \* lights still allowed over all frames
  probe                       \* inputs and results of the pure probes

vars == <<xSlices, ySlices, zSlices, buffer, camera, viewMatrix, lights,
          pc, i, range, cur, budget, probe>>

(***************************************************************************)
(* Bounds of the model.                                                    *)
(***************************************************************************)
\* Per-cluster capacity; base.js sets 500, the model scales it down.
MAX_LIGHTS_PER_CLUSTER == 4
\* Total number of lights over all frames of one behaviour.
MaxTotalLights == 5

(***************************************************************************)
(* JS numbers                                                              *)
(***************************************************************************)
Num(n) == [k |-> "num", v |-> n]
NaN == [k |-> "nan", v |-> 0]
PInf == [k |-> "pinf", v |-> 0]
NInf == [k |-> "ninf", v |-> 0]

IsNum(a) == a.k = "num"

\* Math.floor(n / d) for integers n, d as JS computes the quotient.
JSFloorDiv(n, d) ==
  IF d = 0 THEN (IF n = 0 THEN NaN ELSE IF n > 0 THEN PInf ELSE NInf)
  ELSE IF d > 0 THEN Num(n \div d)
  ELSE Num((-n) \div (-d))

\* Math.ceil(n / d) for integers n, d as JS computes the quotient.
JSCeilDiv(n, d) ==
  IF d = 0 THEN (IF n = 0 THEN NaN ELSE IF n > 0 THEN PInf ELSE NInf)
  ELSE IF d > 0 THEN Num(-((-n) \div d))
  ELSE Num(-(n \div (-d)))

\* Math.max(a, b)
JSMax(a, b) ==
  IF a.k = "nan" \/ b.k = "nan" THEN NaN
  ELSE IF a.k = "pinf" \/ b.k = "pinf" THEN PInf
  ELSE IF a.k = "ninf" THEN b
  ELSE IF b.k = "ninf" THEN a
  ELSE IF a.v >= b.v THEN a ELSE b

\* Math.min(a, b)
JSMin(a, b) ==
  IF a.k = "nan" \/ b.k = "nan" THEN NaN
  ELSE IF a.k = "ninf" \/ b.k = "ninf" THEN NInf
  ELSE IF a.k = "pinf" THEN b
  ELSE IF b.k = "pinf" THEN a
  ELSE IF a.v <= b.v THEN a ELSE b

\* a < b as JS evaluates it (false when either side is NaN)
JSLess(a, b) ==
  /\ a.k # "nan" /\ b.k # "nan"
  /\ \/ a.k = "ninf" /\ b.k # "ninf"
     \/ b.k = "pinf" /\ a.k # "pinf"
     \/ a.k = "num" /\ b.k = "num" /\ a.v < b.v

\* mutant of clampClusterIndex: the upper clamp is forgotten
clampLowerOnly(val, min, max) == JSMax(val, Num(min))

clampClusterIndex(val, min, max) == JSMin(JSMax(val, Num(min)), Num(max))

(***************************************************************************)
(* Grid and packed buffer                                                  *)
(***************************************************************************)
elementCount == xSlices * ySlices * zSlices

\* mutant of elementSize: the slot of the count is not counted
elementSizeNoCount == (MAX_LIGHTS_PER_CLUSTER + 3) \div 4

elementSize == (MAX_LIGHTS_PER_CLUSTER + 1 + 3) \div 4

\* TextureBuffer.bufferIndex: first scalar of group `component` of element `index`
bufferIndex(index, component) == index * elementSize * 4 + component * 4

\* length of TextureBuffer.buffer
bufferLength == elementCount * elementSize * 4

\* mutant of flatten: rows are strided by ySlices
flattenByY(x, y, z) == x + y * ySlices + z * xSlices * ySlices

\* x + y * this._xSlices + z * this._xSlices * this._ySlices
flatten(x, y, z) == x + y * xSlices + z * xSlices * ySlices


(***************************************************************************)
(* Per-light cluster range (base.js lines 42-108)                          *)
(*                                                                         *)
(* A light is [position |-> <<x, y, z>>, radius |-> r] and a view matrix   *)
(* is [s |-> <<sx, sy, sz>>, t |-> <<tx, ty, tz>>]: the affine matrix with *)
(* diagonal s (each 1 or -1) and translation t, for which the w that       *)
(* vec3.transformMat4 divides by is 1.  A camera is [near, far, fov,       *)
(* aspect] with fov in degrees.                                            *)
(***************************************************************************)
\* vec3.transformMat4(out, a, m) for the matrices above
transformMat4(a, m) == [c \in 1..3 |-> m.s[c] * a[c] + m.t[c]]

\* STEP 2: corners of the light's bounding box
bbMin(light) == [c \in 1..3 |-> light.position[c] - light.radius]
bbMax(light) == [c \in 1..3 |-> light.position[c] + light.radius]

\* Math.tan(0.5 * fov * (Math.PI / 180.0)) is 0 exactly when fov is 0
\* (for the fields of view drawn here: 0, 60, 90)
tanFovIsZero(cam) == cam.fov = 0

\* halfYLen = z * tanFov is 0
halfYLenIsZero(cam, z) == z = 0 \/ tanFovIsZero(cam)

\* halfXLen = halfYLen * camera.aspect is 0
halfXLenIsZero(cam, z) == halfYLenIsZero(cam, z) \/ cam.aspect = 0

\* Math.floor(v + (slices * halfLen) / (2.0 * halfLen)): the quotient is
\* slices / 2 for every nonzero finite halfLen and NaN (0 / 0) for halfLen 0
projectFloor(v, slices, halfLenZero) ==
  IF halfLenZero THEN NaN ELSE JSFloorDiv(v + slices, 2)

\* Math.ceil(v + (slices * halfLen) / (2.0 * halfLen))
projectCeil(v, slices, halfLenZero) ==
  IF halfLenZero THEN NaN ELSE JSCeilDiv(v + slices, 2)

\* Math.floor(z / zStep), zStep = (camera.far - camera.near) / this._zSlices
sliceFloor(cam, z) == JSFloorDiv(z * zSlices, 2 * (cam.far - cam.near))

\* mutant of sliceCeil: Math.floor is used for the far end as well
sliceCeilAsFloor(cam, z) == JSFloorDiv(z * zSlices, 2 * (cam.far - cam.near))

\* Math.ceil(z / zStep)
sliceCeil(cam, z) == JSCeilDiv(z * zSlices, 2 * (cam.far - cam.near))

\* clamp both ends to [0, dim], then swap if inverted
clampAndSwap(lo, hi, dim) ==
  LET cl == clampClusterIndex(lo, 0, dim)
      ch == clampClusterIndex(hi, 0, dim)
  IN  [min |-> JSMin(cl, ch), max |-> JSMax(cl, ch)]

\* STEPS 1-5 for one light: the clamped and swapped range on each axis
clusterRange(cam, vm, light) ==
  LET viewBBMin == transformMat4(bbMin(light), vm)
      viewBBMax == transformMat4(bbMax(light), vm)
      zNear == -viewBBMin[3]
      zFar == -viewBBMax[3]
  IN  [x |-> clampAndSwap(
               projectFloor(viewBBMin[1], xSlices, halfXLenIsZero(cam, zNear)),
               projectCeil(viewBBMax[1], xSlices, halfXLenIsZero(cam, zFar)),
               xSlices),
       y |-> clampAndSwap(
               projectFloor(viewBBMin[2], ySlices, halfYLenIsZero(cam, zNear)),
               projectCeil(viewBBMax[2], ySlices, halfYLenIsZero(cam, zFar)),
               ySlices),
       z |-> clampAndSwap(sliceFloor(cam, zNear), sliceCeil(cam, zFar), zSlices)]

\* number of iterations of `for (v = a.min; v < a.max; ++v)`
axisCount(a) == IF JSLess(a.min, a.max) THEN a.max.v - a.min.v ELSE 0

\* number of bodies the loop nest of STEP 6 runs for range r
rangeCount(r) == axisCount(r.z) * axisCount(r.y) * axisCount(r.x)

\* the (x, y, z) of the k-th body (1-based) of the loop nest: z outermost
rangeCell(r, k) ==
  LET nxr == axisCount(r.x)
      nyr == axisCount(r.y)
  IN  <<r.x.min.v + ((k - 1) % nxr),
        r.y.min.v + (((k - 1) \div nxr) % nyr),
        r.z.min.v + ((k - 1) \div (nxr * nyr))>>

\* the clusters (as coordinates) the loop nest of STEP 6 visits for range r
rangeCells(r) == {rangeCell(r, k) : k \in 1..rangeCount(r)}

emptyRange == [x |-> [min |-> Num(0), max |-> Num(0)],
               y |-> [min |-> Num(0), max |-> Num(0)],
               z |-> [min |-> Num(0), max |-> Num(0)]]

(***************************************************************************)
(* Buffer reads and writes.  The buffer is a Float32Array, kept here as    *)
(* the sequence of its four-scalar pixels: element idx (0-based) of the    *)
(* array is component idx % 4 of pixel idx \div 4.  A write past its end   *)
(* is dropped and a read past its end is undefined.                        *)
(***************************************************************************)
\* the valid indices of the array
slotsOf(buf) == 0..(4 * Len(buf) - 1)

\* buffer[idx]
bufferRead(buf, idx) == buf[(idx \div 4) + 1][(idx % 4) + 1]

\* buffer[idx] = val
bufferWrite(buf, idx, val) ==
  IF idx \in slotsOf(buf)
  THEN [buf EXCEPT ![(idx \div 4) + 1][(idx % 4) + 1] = val]
  ELSE buf

\* a zero-filled Float32Array of n scalars (n a multiple of 4)
zeroArray(n) == [p \in 1..(n \div 4) |-> <<0, 0, 0, 0>>]

\* the count slots the reset loop nest (lines 28-37) writes
resetSlots ==
  {bufferIndex(flatten(x, y, z), 0) :
     x \in 0..(xSlices - 1), y \in 0..(ySlices - 1), z \in 0..(zSlices - 1)}

\* mutant of resetCounts: only the first z slice is reset
resetCountsFirstSlice(buf) ==
  [p \in 1..Len(buf) |->
     [q \in 1..4 |->
        IF (4 * (p - 1) + q - 1)
             \in {bufferIndex(x + y * xSlices, 0) :
                    x \in 0..(xSlices - 1), y \in 0..(ySlices - 1)}
        THEN 0 ELSE buf[p][q]]]

\* lines 28-37: the light count of every cluster is set to 0
resetCounts(buf) ==
  [p \in 1..Len(buf) |->
     [q \in 1..4 |->
        IF (4 * (p - 1) + q - 1) \in resetSlots THEN 0 ELSE buf[p][q]]]

\* the scalar slot the index of the lightIdx-th light of a cluster goes to
\* (lines 128-130)
lightSlot(clusterIdx, lightIdx) ==
  LET pixelNum == lightIdx \div 4
      pixelComponent == lightIdx % 4
  IN  bufferIndex(clusterIdx, pixelNum) + pixelComponent

\* mutant of belowCapacity: <= in place of <
belowCapacityInclusive(buf, lightCountIdx) ==
  /\ lightCountIdx \in slotsOf(buf)
  /\ bufferRead(buf, lightCountIdx) <= MAX_LIGHTS_PER_CLUSTER

\* buffer[lightCountIdx] < MAX_LIGHTS_PER_CLUSTER (false for undefined)
belowCapacity(buf, lightCountIdx) ==
  /\ lightCountIdx \in slotsOf(buf)
  /\ bufferRead(buf, lightCountIdx) < MAX_LIGHTS_PER_CLUSTER

\* mutant of addLight: the new count is stored in place of the light's index
addLightStoresCount(buf, cell, li) ==
  LET clusterIdx == cell[1] + cell[2] * xSlices + cell[3] * xSlices * ySlices
      lightCountIdx == clusterIdx * elementSize * 4
  IN  IF lightCountIdx \in slotsOf(buf)
         /\ bufferRead(buf, lightCountIdx) < MAX_LIGHTS_PER_CLUSTER
      THEN LET lightIdx == bufferRead(buf, lightCountIdx) + 1
               at == lightCountIdx + lightIdx
               b1 == [buf EXCEPT ![(lightCountIdx \div 4) + 1]
                                  [(lightCountIdx % 4) + 1] = lightIdx]
           IN  [b1 EXCEPT ![(at \div 4) + 1][(at % 4) + 1] = lightIdx]
      ELSE buf

\* lines 117-131: the body of the population loop for light li at (x, y, z)
addLight(buf, cell, li) ==
  LET clusterIdx == flatten(cell[1], cell[2], cell[3])
      lightCountIdx == bufferIndex(clusterIdx, 0)
  IN  IF belowCapacity(buf, lightCountIdx)
      THEN LET lightIdx == bufferRead(buf, lightCountIdx) + 1
           IN  bufferWrite(bufferWrite(buf, lightCountIdx, lightIdx),
                           lightSlot(clusterIdx, lightIdx), li)
      ELSE buf

(***************************************************************************)
(* Inputs of the frame loop                                                *)
(***************************************************************************)
Identity == [s |-> <<1, 1, 1>>, t |-> <<0, 0, 0>>]
\* camera turned half a turn about the y axis (looks down +z of the world)
TurnedY == [s |-> <<-1, 1, -1>>, t |-> <<0, 0, 0>>]
\* camera moved back by 2 units along its view axis
MovedBack == [s |-> <<1, 1, 1>>, t |-> <<0, 0, -4>>]

Cam(n, f, fv, a) == [near |-> n, far |-> f, fov |-> fv, aspect |-> a]

Light(x, y, z, r) == [position |-> <<x, y, z>>, radius |-> r]

GridSet == {<<2, 2, 2>>, <<1, 2, 2>>}
CameraSet == {Cam(1, 5, 60, 1)}
ViewSet == {Identity, MovedBack}
LightSet == {Light(0, 0, -4, 6), Light(1, 1, -6, 0)}

\* every list of at most n lights of S
SceneSet(S, n) == UNION {[1..m -> S] : m \in 0..n}

(***************************************************************************)
(* updateClusters as a state machine                                       *)
(***************************************************************************)
NoProbe == [stage |-> "none"]

\* constructor (lines 12-21) with a fresh, zero-filled Float32Array
Init ==
  /\ \E g \in GridSet : xSlices = g[1] /\ ySlices = g[2] /\ zSlices = g[3]
  /\ buffer = zeroArray(bufferLength)
  /\ camera \in CameraSet
  /\ viewMatrix = Identity
  /\ lights = <<>>
  /\ pc = "idle"
  /\ i = 0
  /\ range = emptyRange
  /\ cur = 1
  /\ budget = MaxTotalLights
  /\ probe = NoProbe

\* the renderer calls updateClusters(camera, viewMatrix, scene)
Call(cam, vm, scene) ==
  /\ pc = "idle"
  /\ Len(scene) <= budget
  /\ camera' = cam
  /\ viewMatrix' = vm
  /\ lights' = scene
  /\ budget' = budget - Len(scene)
  /\ pc' = "reset"
  /\ UNCHANGED <<xSlices, ySlices, zSlices, buffer, i, range, cur, probe>>

\* lines 28-37
ResetClusters ==
  /\ pc = "reset"
  /\ buffer' = resetCounts(buffer)
  /\ i' = 0
  /\ pc' = "light"
  /\ UNCHANGED <<xSlices, ySlices, zSlices, camera, viewMatrix, lights,
                 range, cur, budget, probe>>

\* lines 41-108: the loop test, then STEPS 1-5 for light i; a range the
\* loop nest of STEP 6 does not enter passes straight on to the next light
ComputeRange ==
  /\ pc = "light"
  /\ i < Len(lights)
  /\ range' = clusterRange(camera, viewMatrix, lights[i + 1])
  /\ cur' = 1
  /\ IF rangeCount(range') = 0
     THEN i' = i + 1 /\ pc' = "light"
     ELSE i' = i /\ pc' = "populate"
  /\ UNCHANGED <<xSlices, ySlices, zSlices, buffer, camera, viewMatrix,
                 lights, budget, probe>>

\* lines 113-134: one body of the loop nest of STEP 6
Populate ==
  /\ pc = "populate"
  /\ buffer' = addLight(buffer, rangeCell(range, cur), i)
  /\ IF cur < rangeCount(range)
     THEN cur' = cur + 1 /\ i' = i /\ pc' = "populate"
     ELSE cur' = 1 /\ i' = i + 1 /\ pc' = "light"
  /\ UNCHANGED <<xSlices, ySlices, zSlices, camera, viewMatrix, lights,
                 range, budget, probe>>

\* line 137: the light loop has ended; the buffer is handed to the texture
Upload ==
  /\ pc = "light"
  /\ i >= Len(lights)
  /\ pc' = "idle"
  /\ UNCHANGED <<xSlices, ySlices, zSlices, buffer, camera, viewMatrix,
                 lights, i, range, cur, budget, probe>>

CallAny ==
  \E cam \in CameraSet, vm \in ViewSet, scene \in SceneSet(LightSet, budget) :
    Call(cam, vm, scene)

Next == CallAny \/ ResetClusters \/ ComputeRange \/ Populate \/ Upload

Spec == Init /\ [][Next]_vars

(***************************************************************************)
(* The scenario of the 4x4x4 grid: one camera, one light on the view axis  *)
(* at depth 10 with radius 5, drawn any number of times.                   *)
(***************************************************************************)
ScenarioCamera == Cam(1, 100, 60, 1)
ScenarioLight == Light(0, 0, -20, 10)

InitScenario ==
  /\ xSlices = 4 /\ ySlices = 4 /\ zSlices = 4
  /\ buffer = zeroArray(bufferLength)
  /\ camera = ScenarioCamera
  /\ viewMatrix = Identity
  /\ lights = <<>>
  /\ pc = "idle"
  /\ i = 0
  /\ range = emptyRange
  /\ cur = 1
  /\ budget = MaxTotalLights
  /\ probe = NoProbe

CallScenario ==
  \E scene \in SceneSet({ScenarioLight}, budget) :
    Call(ScenarioCamera, Identity, scene)

NextScenario ==
  CallScenario \/ ResetClusters \/ ComputeRange \/ Populate \/ Upload

SpecScenario == InitScenario /\ [][NextScenario]_vars

(***************************************************************************)
(* The fragment shader's cluster lookup (deferred.frag.glsl.js 97-120).    *)
(* u_slices is the grid, u_fov and u_aspect the camera's, u_clipDist is    *)
(* far - near.  int() of a NaN or an infinity is undefined in GLSL.  The   *)
(* coordinates drawn are small dyadic rationals, exact in highp floats;    *)
(* the quotients are taken as exact, as on the CPU side.                   *)
(***************************************************************************)
\* int(n / d): truncation toward zero
glslIntDiv(n, d) ==
  IF d = 0 THEN NaN
  ELSE IF d < 0 THEN (IF n <= 0 THEN Num((-n) \div (-d))
                                ELSE Num(-(n \div (-d))))
  ELSE IF n >= 0 THEN Num(n \div d)
  ELSE Num(-((-n) \div d))

\* int(v + (slices * halfLen) / (2.0 * halfLen))
glslProject(v, slices, halfLenZero) ==
  IF halfLenZero THEN NaN ELSE glslIntDiv(v + slices, 2)

\* lines 98-104: clusterX, clusterY, clusterZ of a fragment at world pos
shaderCluster(cam, vm, pos) ==
  LET viewPos == transformMat4(pos, vm)
  IN  <<glslProject(viewPos[1], xSlices, halfXLenIsZero(cam, viewPos[3])),
        glslProject(viewPos[2], ySlices, halfYLenIsZero(cam, viewPos[3])),
        glslIntDiv(viewPos[3] * zSlices, 2 * (cam.far - cam.near))>>

\* line 110
shaderClusterIndex(cx, cy, cz) == cx + cy * xSlices + cz * xSlices * ySlices

\* ExtractFloat(u_clusterbuffer, ..., index, component): texel (index, pixel)
\* of the cluster texture holds group `pixel` of element `index` of the buffer
ExtractFloat(buf, index, component) ==
  LET pixel == component \div 4
      pixelComponent == component - pixel * 4
  IN  bufferRead(buf, bufferIndex(index, pixel) + pixelComponent)

\* the outcomes of int() on a value: undefined for a NaN
UndefinedInts == {-1, 0, 1}
glslInt(a) == IF IsNum(a) THEN {a.v} ELSE UndefinedInts

\* the CPU-side cluster coordinates of a box corner at view-space p
\* (base.js lines 57-69, 84, 99)
cpuCluster(cam, p) ==
  <<projectFloor(p[1], xSlices, halfXLenIsZero(cam, -p[3])),
    projectFloor(p[2], ySlices, halfYLenIsZero(cam, -p[3])),
    sliceFloor(cam, -p[3])>>

(***************************************************************************)
(* Probes of the pure functions over wide inputs                           *)
(***************************************************************************)
ProbeGrids == {<<4, 4, 4>>, <<2, 3, 2>>}
ProbeCameras == {Cam(1, 5, 60, 1), Cam(1, 100, 60, 1), Cam(1, 5, 90, 2),
                 Cam(1, 5, 0, 1), Cam(3, 3, 60, 1), Cam(5, 1, 60, 0)}
ProbeViews == {Identity, TurnedY, MovedBack}
ProbeXs == {-5, -3, -1, 0, 1, 3, 4}
ProbeYs == {-2, 0, 1}
ProbeZs == {-60, -20, -11, -8, -6, -5, -4, -3, -2, -1, 0, 2}
ProbeRadii == {0, 1, 2, 5, 10, 24}

InitProbe ==
  /\ \E g \in ProbeGrids : xSlices = g[1] /\ ySlices = g[2] /\ zSlices = g[3]
  /\ buffer = <<>>                       \* the probes touch no buffer
  /\ camera \in ProbeCameras
  /\ viewMatrix \in ProbeViews
  /\ lights = <<>>
  /\ pc = "probe"
  /\ i = 0
  /\ range = emptyRange
  /\ cur = 1
  /\ budget = 0
  /\ \E px \in ProbeXs, py \in ProbeYs, pz \in ProbeZs,
        ra \in ProbeRadii, rb \in ProbeRadii :
       /\ ra <= rb
       /\ probe = [stage |-> "input", pos |-> <<px, py, pz>>,
                   r1 |-> ra, r2 |-> rb]

\* STEPS 1-5 for a light at probe.pos with radius r1 and with radius r2
ProbeRanges ==
  /\ pc = "probe" /\ probe.stage = "input"
  /\ probe' = [stage |-> "ranges", pos |-> probe.pos,
               r1 |-> probe.r1, r2 |-> probe.r2,
               range1 |-> clusterRange(camera, viewMatrix,
                            [position |-> probe.pos, radius |-> probe.r1]),
               range2 |-> clusterRange(camera, viewMatrix,
                            [position |-> probe.pos, radius |-> probe.r2])]
  /\ UNCHANGED <<xSlices, ySlices, zSlices, buffer, camera, viewMatrix,
                 lights, pc, i, range, cur, budget>>

\* the shader's and the CPU's cluster of a fragment at probe.pos
ProbeShader ==
  /\ pc = "probe" /\ probe.stage = "input"
  /\ LET sc == shaderCluster(camera, viewMatrix, probe.pos)
     IN  \E cx \in glslInt(sc[1]), cy \in glslInt(sc[2]), cz \in glslInt(sc[3]) :
           probe' = [stage |-> "shader", pos |-> probe.pos,
                     r1 |-> probe.r1, r2 |-> probe.r2,
                     viewPos |-> transformMat4(probe.pos, viewMatrix),
                     shaderCell |-> <<cx, cy, cz>>,
                     shaderIndex |-> shaderClusterIndex(cx, cy, cz),
                     cpuCell |-> cpuCluster(camera,
                                   transformMat4(probe.pos, viewMatrix))]
  /\ UNCHANGED <<xSlices, ySlices, zSlices, buffer, camera, viewMatrix,
                 lights, pc, i, range, cur, budget>>

NextProbe == ProbeRanges \/ ProbeShader

SpecProbe == InitProbe /\ [][NextProbe]_vars

(***************************************************************************)
(* A whole call from a given buffer, as one function (lines 23-138)        *)
(***************************************************************************)
\* STEP 6 for one light: every body of the loop nest, in order
populateRange(buf, r, li) ==
  LET F[k \in 0..rangeCount(r)] ==
        IF k = 0 THEN buf ELSE addLight(F[k - 1], rangeCell(r, k), li)
  IN  F[rangeCount(r)]

\* the buffer updateClusters(cam, vm, scene) leaves when it starts from buf
updateClusters(buf, cam, vm, scene) ==
  LET G[m \in 0..Len(scene)] ==
        IF m = 0 THEN resetCounts(buf)
        ELSE populateRange(G[m - 1], clusterRange(cam, vm, scene[m]), m - 1)
  IN  G[Len(scene)]

(***************************************************************************)
(* Vocabulary of the properties                                            *)
(***************************************************************************)
Clusters == 0..(elementCount - 1)

\* first scalar of the record of cluster c
recordBase(c) == c * elementSize * 4

\* scalars of one record
recordScalars == elementSize * 4

\* the count stored for cluster c
storedCount(c) == bufferRead(buffer, recordBase(c))

\* the cluster coordinates of a row-major index
cellOf(c) == <<c % xSlices, (c \div xSlices) % ySlices, c \div (xSlices * ySlices)>>

axisHas(a, v) == IsNum(a.min) /\ IsNum(a.max) /\ a.min.v <= v /\ v < a.max.v

\* range r contains the cluster with coordinates cell
rangeHas(r, cell) ==
  axisHas(r.x, cell[1]) /\ axisHas(r.y, cell[2]) /\ axisHas(r.z, cell[3])

\* S(c) over the first n lights: the indices (0-based, in scene order) of
\* the lights whose clamped and swapped range contains cluster c
overlapping(c, n) ==
  LET F[m \in 0..n] ==
        IF m = 0 THEN <<>>
        ELSE IF rangeHas(clusterRange(camera, viewMatrix, lights[m]), cellOf(c))
             THEN Append(F[m - 1], m - 1)
             ELSE F[m - 1]
  IN  F[n]

Min(a, b) == IF a <= b THEN a ELSE b

\* lights 0 .. i-1 are fully processed
BetweenLights == pc \in {"light", "idle"}

\* count and listed indices of every cluster of a buffer
logical(buf) ==
  [c \in Clusters |->
     [count |-> bufferRead(buf, recordBase(c)),
      indices |-> [k \in 1..bufferRead(buf, recordBase(c)) |->
                     bufferRead(buf, recordBase(c) + k)]]]

(***************************************************************************)
(* Properties                                                              *)
(***************************************************************************)

\* C1: in every state during and after updateClusters the count stored in
\* the first scalar of every cluster's record is an integer in
\* 0 .. MAX_LIGHTS_PER_CLUSTER, however many lights overlap the cluster.
C1_CapacityBound ==
  \A c \in Clusters : storedCount(c) \in 0..MAX_LIGHTS_PER_CLUSTER

\* C1 witness: a call has ended with a cluster at capacity that more than
\* MAX_LIGHTS_PER_CLUSTER lights of the scene overlap.
C1_Witness ==
  /\ pc = "idle"
  /\ \E c \in Clusters :
       /\ storedCount(c) = MAX_LIGHTS_PER_CLUSTER
       /\ Len(overlapping(c, Len(lights))) > MAX_LIGHTS_PER_CLUSTER

\* C2: once lights 0 .. i-1 are processed (and so after the call), every
\* cluster c holds count = min(|S(c)|, MAX_LIGHTS_PER_CLUSTER) and its stored
\* indices are the first count elements of S(c) in scene order; a light
\* dropped from a full cluster is thus still listed in the other clusters of
\* its range that are not full.
C2_FirstComeContent ==
  BetweenLights =>
    \A c \in Clusters :
      LET S == overlapping(c, i)
      IN  /\ storedCount(c) = Min(Len(S), MAX_LIGHTS_PER_CLUSTER)
          /\ \A k \in 1..storedCount(c) :
               bufferRead(buffer, recordBase(c) + k) = S[k]

\* C2 witness: after a call, a light dropped from a full cluster is listed
\* in another cluster of its range.
C2_Witness ==
  /\ pc = "idle"
  /\ \E c1 \in Clusters, c2 \in Clusters :
       LET S1 == overlapping(c1, Len(lights))
           S2 == overlapping(c2, Len(lights))
       IN  /\ Len(S1) > MAX_LIGHTS_PER_CLUSTER
           /\ Len(S2) <= MAX_LIGHTS_PER_CLUSTER
           /\ \E k \in 1..Len(S2) :
                /\ S2[k] = S1[MAX_LIGHTS_PER_CLUSTER + 1]
                /\ bufferRead(buffer, recordBase(c2) + k) = S2[k]

\* vocabulary of the range properties
ProperCamera == camera.far > camera.near /\ camera.fov > 0 /\ camera.aspect > 0

axisIsNum(a) == IsNum(a.min) /\ IsNum(a.max)

rangeIsNum(r) == axisIsNum(r.x) /\ axisIsNum(r.y) /\ axisIsNum(r.z)

axisWidens(a1, a2) == a2.min.v <= a1.min.v /\ a2.max.v >= a1.max.v

\* C3: for a fixed grid, camera, view matrix and light position, radius
\* r1 <= r2 gives on every axis a range for r2 whose min is no larger and
\* whose max is no smaller than for r1, so the clusters assigned with r1 are
\* among those assigned with r2.  Stated for cameras with far > near,
\* fov > 0, aspect > 0 and ranges free of NaN.
C3_RangeMonotone ==
  (/\ probe.stage = "ranges"
   /\ ProperCamera
   /\ probe.r1 <= probe.r2
   /\ rangeIsNum(probe.range1) /\ rangeIsNum(probe.range2))
  => /\ axisWidens(probe.range1.x, probe.range2.x)
     /\ axisWidens(probe.range1.y, probe.range2.y)
     /\ axisWidens(probe.range1.z, probe.range2.z)
     /\ rangeCells(probe.range1) \subseteq rangeCells(probe.range2)

\* the camera frustum in view space (coordinates in half units)
tanSqNum == IF camera.fov \in {60, 90} THEN 1 ELSE 0
tanSqDen == IF camera.fov = 60 THEN 3 ELSE 1

outsideFrustum(p) ==
  LET depth == -p[3]
  IN  \/ depth < 0
      \/ depth > 2 * camera.far
      \/ tanSqDen * p[2] * p[2] > tanSqNum * depth * depth
      \/ tanSqDen * p[1] * p[1]
           > tanSqNum * depth * depth * camera.aspect * camera.aspect

\* C4: a light of radius 0 whose view-space position is outside the camera
\* frustum (behind the camera, beyond far, or laterally outside the frustum
\* at its depth) gets a range that is empty on some axis.  Coordinates are
\* in half units; tan(fov / 2)^2 is 1/3 for fov 60 and 1 for fov 90.
C4_DegenerateLightCulled ==
  (/\ probe.stage = "ranges"
   /\ ProperCamera
   /\ probe.r1 = 0
   /\ outsideFrustum(transformMat4(probe.pos, viewMatrix)))
  => rangeCount(probe.range1) = 0

\* C5 as amended: in the 4x4x4 scenario (camera near 1, far 100, fov 60,
\* aspect 1, identity view, one light at view-space (0, 0, -10) with radius
\* 5) light 0 is listed, with count 1, in exactly the 16 clusters of z slice
\* 0, the slice of depth 10: every x and y cluster, not only the central
\* ones; every other cluster has count 0.
C5_ScenarioSliceZero ==
  (pc = "idle" /\ lights = <<ScenarioLight>>)
  => \A c \in Clusters :
       IF cellOf(c)[3] = 0
       THEN storedCount(c) = 1 /\ bufferRead(buffer, recordBase(c) + 1) = 0
       ELSE storedCount(c) = 0

\* C5 witness: the scenario's call has run to its end.
C5_Witness ==
  /\ pc = "idle" /\ lights = <<ScenarioLight>> /\ budget < MaxTotalLights
  /\ xSlices = 4 /\ ySlices = 4 /\ zSlices = 4
  /\ camera = ScenarioCamera /\ viewMatrix = Identity

\* C5 as stated: light 0 is listed, with count 1, in a contiguous band of z
\* slices that includes the slice of depth 10 and there only in the
\* horizontally centred x/y clusters (x, y in {1, 2}); count 0 elsewhere.
C5_ScenarioCentredOnly ==
  (pc = "idle" /\ lights = <<ScenarioLight>>)
  => \E zlo \in 0..(zSlices - 1), zhi \in 0..(zSlices - 1) :
       /\ zlo <= (10 * zSlices) \div (camera.far - camera.near)
       /\ (10 * zSlices) \div (camera.far - camera.near) <= zhi
       /\ \A c \in Clusters :
            IF /\ cellOf(c)[1] \in {1, 2} /\ cellOf(c)[2] \in {1, 2}
               /\ cellOf(c)[3] \in zlo..zhi
            THEN storedCount(c) = 1 /\ bufferRead(buffer, recordBase(c) + 1) = 0
            ELSE storedCount(c) = 0

\* C6: the scalar at bufferIndex(c, 0) is the count of cluster c; the k-th
\* light appended to c is stored at scalar k of c's record, which is
\* bufferIndex(c, floor(k / 4)) + (k mod 4) and is the slot the shader
\* decodes with ExtractFloat(clusterIndex, k); no index write, the one at
\* count = MAX_LIGHTS_PER_CLUSTER included, leaves the record of c.
C6_PackedLayout ==
  \A c \in Clusters :
    /\ bufferIndex(c, 0) = recordBase(c)
    /\ \A k \in 1..MAX_LIGHTS_PER_CLUSTER :
         /\ lightSlot(c, k) = recordBase(c) + k
         /\ lightSlot(c, k) < recordBase(c) + recordScalars
         /\ lightSlot(c, k) \in slotsOf(buffer)
    /\ BetweenLights =>
         LET S == overlapping(c, i)
         IN  /\ ExtractFloat(buffer, c, 0) = Min(Len(S), MAX_LIGHTS_PER_CLUSTER)
             /\ \A k \in 1..Min(Len(S), MAX_LIGHTS_PER_CLUSTER) :
                  /\ bufferRead(buffer, lightSlot(c, k)) = S[k]
                  /\ ExtractFloat(buffer, c, k) = S[k]

\* C6 witness: a full cluster whose last index lies in the second group of
\* four scalars of its record.
C6_Witness ==
  /\ pc = "idle"
  /\ \E c \in Clusters :
       /\ storedCount(c) = MAX_LIGHTS_PER_CLUSTER
       /\ lightSlot(c, MAX_LIGHTS_PER_CLUSTER) >= bufferIndex(c, 1)
       /\ bufferRead(buffer, lightSlot(c, MAX_LIGHTS_PER_CLUSTER)) > 0

\* the cluster coordinates of the grid
GridCells ==
  (0..(xSlices - 1)) \X (0..(ySlices - 1)) \X (0..(zSlices - 1))

\* C7: over the grid, x + y*nx + z*nx*ny lies in [0, nx*ny*nz) and distinct
\* coordinates give distinct indices; the four-scalar groups of distinct
\* clusters (any group offsets below elementSize) do not overlap.
C7_FlattenBijection ==
  /\ \A a \in GridCells : flatten(a[1], a[2], a[3]) \in 0..(elementCount - 1)
  /\ \A a \in GridCells, b \in GridCells :
       a # b => flatten(a[1], a[2], a[3]) # flatten(b[1], b[2], b[3])
  /\ \A c1 \in Clusters, c2 \in Clusters :
       c1 # c2 =>
         \A g1 \in 0..(elementSize - 1), g2 \in 0..(elementSize - 1) :
           \/ bufferIndex(c1, g1) + 3 < bufferIndex(c2, g2)
           \/ bufferIndex(c2, g2) + 3 < bufferIndex(c1, g1)

\* C7 witness: on a grid with xSlices # ySlices the population loop is at a
\* cluster off the x axis, writing through flatten and bufferIndex.
C7_Witness ==
  /\ pc = "populate"
  /\ xSlices # ySlices
  /\ rangeCell(range, cur)[2] > 0 /\ rangeCell(range, cur)[3] > 0
  /\ storedCount(flatten(rangeCell(range, cur)[1], rangeCell(range, cur)[2],
                         rangeCell(range, cur)[3])) > 0

\* CPU-side coordinates that name a cluster of the grid
cellInGrid(cell) ==
  /\ IsNum(cell[1]) /\ IsNum(cell[2]) /\ IsNum(cell[3])
  /\ cell[1].v \in 0..(xSlices - 1)
  /\ cell[2].v \in 0..(ySlices - 1)
  /\ cell[3].v \in 0..(zSlices - 1)

\* C8: with u_slices the grid and u_clipDist = far - near, for every
\* view-space point p with p.z < 0 whose CPU-side cluster coordinates
\* (floor(p.x + nx/2), floor(p.y + ny/2), floor(-p.z / zStep)) lie inside
\* the grid, the cluster index the shader computes from p is the flattened
\* index of those coordinates.
C8_ShaderAgreesWithCpu ==
  (/\ probe.stage = "shader"
   /\ probe.viewPos[3] < 0
   /\ cellInGrid(probe.cpuCell))
  => probe.shaderIndex
       = probe.cpuCell[1].v + probe.cpuCell[2].v * xSlices
           + probe.cpuCell[3].v * xSlices * ySlices

\* the three parts of frame independence
zeroBuffer == zeroArray(bufferLength)

C9_ContentIsFresh ==
  pc = "idle" =>
    logical(buffer) = logical(updateClusters(zeroBuffer, camera, viewMatrix, lights))

C9_ResetIdempotent == resetCounts(resetCounts(buffer)) = resetCounts(buffer)

C9_ResetStep ==
  pc = "reset" =>
    \A j \in slotsOf(buffer) :
      IF \E c \in Clusters : j = recordBase(c)
      THEN bufferRead(buffer', j) = 0
      ELSE bufferRead(buffer', j) = bufferRead(buffer, j)

\* C9: after every call the count and the first count indices of every
\* cluster are those the same call leaves on a fresh, zero-filled buffer:
\* they depend on the call's camera, view matrix and lights only.  The reset
\* phase writes 0 to every cluster's count slot and changes no other slot,
\* and resetting twice gives what resetting once gives.
C9_FrameIndependence ==
  /\ [](C9_ContentIsFresh /\ C9_ResetIdempotent)
  /\ [][C9_ResetStep]_vars

\* C9 witness: a call has ended on a buffer that still holds, past a
\* cluster's count, a nonzero light index of an earlier call.
C9_Witness ==
  /\ pc = "idle"
  /\ \E c \in Clusters :
       \E k \in (storedCount(c) + 1)..MAX_LIGHTS_PER_CLUSTER :
         bufferRead(buffer, recordBase(c) + k) > 0

\* a well-formed range
axisValid(a, dim) ==
  axisIsNum(a) => (0 <= a.min.v /\ a.min.v <= a.max.v /\ a.max.v <= dim)

rangeValid(r) ==
  /\ axisValid(r.x, xSlices) /\ axisValid(r.y, ySlices) /\ axisValid(r.z, zSlices)
  /\ \A a \in {r.x.min, r.x.max, r.y.min, r.y.max, r.z.min, r.z.max} :
       a.k \in {"num", "nan"}
  /\ rangeCells(r) \subseteq GridCells

\* C10: whenever the range arithmetic yields no NaN, every axis of the
\* clamped and swapped range has 0 <= min <= max <= dim, so every (x, y, z)
\* the population loop visits is inside the grid; an inverted or fully
\* off-frustum range becomes a valid, possibly empty range.
C10_RangeInsideGrid ==
  probe.stage = "ranges" => rangeValid(probe.range1) /\ rangeValid(probe.range2)

\* C10 witness: a z range that is still inverted after the clamp (the far
\* end's slice lies before the near end's) is swapped into a valid one, and
\* a range entirely past the last slice is empty.
C10_Witness ==
  /\ probe.stage = "ranges"
  /\ viewMatrix = Identity
  /\ LET lo == clampClusterIndex(sliceFloor(camera, probe.r2 - probe.pos[3]),
                                 0, zSlices)
         hi == clampClusterIndex(sliceCeil(camera, -probe.pos[3] - probe.r2),
                                 0, zSlices)
     IN  /\ JSLess(hi, lo)
         /\ probe.range2.z = [min |-> hi, max |-> lo]
  /\ probe.range1.z = [min |-> Num(zSlices), max |-> Num(zSlices)]

=============================================================================
